---- MODULE Spec2Model ----
\* Package watcher / build orchestrator of the builder manager
\* (package buildermgr, src/unnamed/part_000).
\*
\* One package (PkgNs, PkgName) lives in the resource store.  Every accepted
\* write of the store appends a new version to hist, so the resource version
\* of a snapshot is its index in hist and the stored object is the last one.
\* Informer notifications carry snapshots of any version the store has held
\* (at-least-once delivery, resyncs and a lagging informer cache).  What the
\* controller only reads, the Environment and the builder pods of the pod
\* informer's store, is an input of the step that reads it.
EXTENDS Naturals, Sequences, FiniteSets, TLC

\* ---------------------------------------------------------------- bounds
MaxRuns == 2        \* build goroutines spawned in one behaviour
MaxRV == 5          \* versions of the package the store hands out
MaxRetries == 2     \* attempt budget of the health-check backoff
NumFns == 2         \* functions in the package's namespace
MaxPods == 2        \* builder pods in the informer store
MaxApplies == 1     \* versions the user applies after the first

Runs == 1..MaxRuns
Fns == 1..NumFns

\* ------------------------------------------------------- names and values
PkgNs == "default"
PkgName == "pkg"
EnvName == "env"
EnvNs == "default"
EnvRV == "7"

BuildStatusNone == "none"
BuildStatusPending == "pending"
BuildStatusRunning == "running"
BuildStatusSucceeded == "succeeded"
BuildStatusFailed == "failed"
Unset == ""

LogBothEmpty == "Both deploy and source archive are empty"
\* fmt.Sprintf("%s: %q", e, pkg.Spec.Environment.Name), lines 110-113.
LogEnvMissing == "environment does not exist" \o ": " \o "\"" \o EnvName \o "\""
LogTimeout == "Build timeout due to environment builder not ready"
LogBuild == "buildLogs"
LogListErr == "buildLogs error getting function list"
LogFnErr == "buildLogs error updating function package resource version"

VARIABLES
    hist,        \* versions of the package: hist[rv] = [status, log, dep, src, by]
    fns,         \* function -> [ref: its package reference, ver: its own version]
    buildCache,  \* keys of pkgw.buildCache
    run          \* build goroutines

vars == <<hist, fns, buildCache, run>>

\* ------------------------------------------------------- resource store
\* The stored package and its resource version.
CurRV == Len(hist)
Cur == hist[CurRV]

Terminal(st) == st \in {BuildStatusNone, BuildStatusSucceeded, BuildStatusFailed}

\* Packages(ns).Update(ctx, pkg): the store takes the write only when the
\* object carries the resource version it holds (optimistic concurrency); any
\* write can also fail for a transient reason (ok = FALSE).  The store hands
\* out at most MaxRV versions; past that every write fails.
UpdateAccepted(given, ok) == ok /\ given = CurRV /\ CurRV < MaxRV

Version(st, lg, depE, srcE, who) ==
    [status |-> st, log |-> lg, depEmpty |-> depE, srcEmpty |-> srcE, by |-> who]

\* updatePackage(pkg, status, buildLogs, uploadResp): replaces the status of
\* pkg and writes the object; an upload response fills the deployment archive.
UpdatedPackage(given, st, lg, upload) ==
    Version(st, lg, IF upload THEN FALSE ELSE hist[given].depEmpty,
            hist[given].srcEmpty, "build")

\* ------------------------------------------------------------ functions
FnRef(ns, name, rv) == [ns |-> ns, name |-> name, rv |-> rv]
\* References the functions hold before any build: to this package at an old
\* version (0) or at the version its first Running write will get (2), to
\* another package, or to a package of another namespace.
InitialRefs ==
    {FnRef(PkgNs, PkgName, 0), FnRef(PkgNs, PkgName, 2),
     FnRef(PkgNs, "other", 0), FnRef("other-ns", PkgName, 0)}

\* --------------------------------------------------------- builder pods
GetBuilderNS(namespace) == namespace
builderNs == GetBuilderNS(EnvNs)

Pod(name, ns, rv, cs) == [envName |-> name, envNs |-> ns, envRV |-> rv, containers |-> cs]
\* Builder pods the informer store can hold: of this environment with every
\* container ready, of this environment with a container not ready, of an
\* older version of this environment, and of the environment of this name in
\* another namespace.
PodKinds ==
    {Pod(EnvName, builderNs, EnvRV, <<TRUE, TRUE>>),
     Pod(EnvName, builderNs, EnvRV, <<TRUE, FALSE>>),
     Pod(EnvName, builderNs, "6", <<TRUE>>),
     Pod(EnvName, "other-ns", EnvRV, <<TRUE>>)}
\* podInformer[builderNs].GetStore().List(): the pod informer keeps its store
\* up to date on its own (lines 313-315), so a listing is any list of distinct
\* pods, in any order.
PodLists ==
    UNION {{l \in [1..n -> PodKinds] : \A i, j \in 1..n : i # j => l[i] # l[j]}
           : n \in 0..MaxPods}

\* The filter of lines 152-154 without the namespace label.
PodMatchesNameVersion(pod) ==
    ~(pod.envName # EnvName \/ pod.envRV # EnvRV)

\* Lines 152-154: the labels of the pod are those of the environment.
PodMatches(pod) ==
    ~(pod.envName # EnvName \/ pod.envNs # builderNs \/ pod.envRV # EnvRV)

\* Lines 160-164: podIsReady, the conjunction over the container statuses.
PodIsReady(pod) == \A i \in 1..Len(pod.containers) : pod.containers[i]

\* ------------------------------------------------------------ dedup key
\* buildCacheKey, lines 67-69: fmt.Sprintf("%s-%s-%s", ...).
buildCacheKey(ns, name, rv) == ns \o "-" \o name \o "-" \o ToString(rv)

\* buildCache.Set(key, value) returns an error: the key is already present.
SetFails(key) == key \in buildCache

\* ------------------------------------------------------ build goroutines
IdleRun ==
    [pc |-> "idle", src |-> 0, via |-> "", pkg |-> 0, enverr |-> FALSE,
     tries |-> 0, items |-> <<>>, list |-> <<>>, idx |-> 1, log |-> "", built |-> 0,
     wr |-> <<>>, upd |-> {}, ffn |-> 0, admTerminal |-> FALSE, bret |-> ""]

InFlight(r) == run[r].pc \notin {"idle", "done"}
RunKey(r) == buildCacheKey(PkgNs, PkgName, run[r].src)

\* What the user applies: a manifest without status and with any archives, or
\* a source package that asks for a build.
Manifests ==
    {Version(Unset, "", d, s, "user") : d \in BOOLEAN, s \in BOOLEAN}
    \cup {Version(BuildStatusPending, "", TRUE, FALSE, "user")}

Applies == Cardinality({n \in 2..Len(hist) : hist[n].by = "user"})

Init ==
    /\ \E m \in Manifests : hist = <<m>>
    /\ \E refs \in [Fns -> InitialRefs] :
           /\ refs[1] = FnRef(PkgNs, PkgName, 0)
           /\ fns = [f \in Fns |-> [ref |-> refs[f], ver |-> 1]]
    /\ buildCache = {}
    /\ run = [r \in Runs |-> IdleRun]

\* ------------------------------------------------------- external writers
\* The user applies a new version of the source package (kubectl apply /
\* replace), without status or asking for a build.
ExternalApply ==
    /\ CurRV < MaxRV
    /\ Applies < MaxApplies
    /\ \E st \in {Unset, BuildStatusPending} :
           hist' = Append(hist, Version(st, "", TRUE, FALSE, "user"))
    /\ UNCHANGED <<fns, buildCache, run>>

\* ------------------------------------------------------- initial status
\* The resolver with the two archive tests in the other order.
InitialStatusSourceFirst(depEmpty, srcEmpty) ==
    IF ~srcEmpty THEN [status |-> BuildStatusPending, log |-> ""]
    ELSE IF ~depEmpty THEN [status |-> BuildStatusNone, log |-> ""]
    ELSE [status |-> BuildStatusFailed, log |-> LogBothEmpty]

\* setInitialBuildStatus, lines 329-340: the status and log it assigns.
InitialStatus(depEmpty, srcEmpty) ==
    IF ~depEmpty THEN [status |-> BuildStatusNone, log |-> ""]
    ELSE IF ~srcEmpty THEN [status |-> BuildStatusPending, log |-> ""]
    ELSE [status |-> BuildStatusFailed, log |-> LogBothEmpty]

\* setInitialBuildStatus, lines 325-344, on the snapshot of version n.
setInitialBuildStatus(n) ==
    /\ \E ok \in BOOLEAN :
        LET st == InitialStatus(hist[n].depEmpty, hist[n].srcEmpty) IN
        IF UpdateAccepted(n, ok)
        THEN hist' = Append(hist, Version(st.status, st.log, hist[n].depEmpty,
                                          hist[n].srcEmpty, "resolver"))
        ELSE hist' = hist
    /\ UNCHANGED <<fns, buildCache, run>>

\* ------------------------------------------------------------ admission
\* The first run slot not used yet.
FreeRun == CHOOSE r \in Runs : run[r].pc = "idle" /\ \A q \in 1..(r-1) : run[q].pc # "idle"

\* buildWithCache that ignores the error of buildCache.Set.
buildWithCacheAlways(n, via) ==
    /\ \E r \in Runs : run[r].pc = "idle"
    /\ buildCache' = buildCache \cup {buildCacheKey(PkgNs, PkgName, n)}
    /\ run' = [run EXCEPT ![FreeRun] =
           [IdleRun EXCEPT !.pc = "start", !.src = n, !.via = via,
                           !.admTerminal = Terminal(Cur.status)]]
    /\ UNCHANGED <<hist, fns>>

\* buildWithCache, lines 71-79: buildCache.Set fails when the key is present;
\* otherwise the key is stored and the build goroutine is spawned.
buildWithCache(n, via) ==
    LET key == buildCacheKey(PkgNs, PkgName, n) IN
    IF SetFails(key)
    THEN UNCHANGED vars
    ELSE /\ \E r \in Runs : run[r].pc = "idle"
         /\ buildCache' = buildCache \cup {key}
         /\ run' = [run EXCEPT ![FreeRun] =
                [IdleRun EXCEPT !.pc = "start", !.src = n, !.via = via,
                                !.admTerminal = Terminal(Cur.status)]]
         /\ UNCHANGED <<hist, fns>>

\* ------------------------------------------------------------ dispatcher
\* processPkg without the Pending test of line 284.
ProcessPkgActionAnyStatus(status) ==
    IF Len(status) = 0 THEN "resolve" ELSE "build"

\* processPkg, lines 271-287: what it does with a package of this status.
ProcessPkgAction(status) ==
    IF Len(status) = 0 THEN "resolve"
    ELSE IF status = BuildStatusPending THEN "build"
    ELSE "none"

\* processPkg without the return of line 281: after the resolver, which sets
\* the status of the object it was handed, the Pending test of line 284 runs.
processPkgNoReturn(n, via) ==
    IF ProcessPkgAction(hist[n].status) = "resolve"
    THEN LET st == InitialStatus(hist[n].depEmpty, hist[n].srcEmpty)
             key == buildCacheKey(PkgNs, PkgName, n) IN
         /\ \E ok \in BOOLEAN :
                IF UpdateAccepted(n, ok)
                THEN hist' = Append(hist, Version(st.status, st.log, hist[n].depEmpty,
                                                  hist[n].srcEmpty, "resolver"))
                ELSE hist' = hist
         /\ IF st.status = BuildStatusPending /\ ~SetFails(key)
            THEN /\ \E r \in Runs : run[r].pc = "idle"
                 /\ buildCache' = buildCache \cup {key}
                 /\ run' = [run EXCEPT ![FreeRun] =
                        [IdleRun EXCEPT !.pc = "start", !.src = n, !.via = via,
                                        !.admTerminal = Terminal(Cur.status)]]
            ELSE UNCHANGED <<buildCache, run>>
         /\ fns' = fns
    ELSE IF ProcessPkgAction(hist[n].status) = "build"
    THEN buildWithCache(n, via)
    ELSE UNCHANGED vars

\* processPkg, lines 271-287, on the snapshot of version n.
processPkg(n, via) ==
    CASE ProcessPkgAction(hist[n].status) = "resolve" -> setInitialBuildStatus(n)
      [] ProcessPkgAction(hist[n].status) = "build" -> buildWithCache(n, via)
      [] OTHER -> UNCHANGED vars

\* AddFunc, lines 289-292, on the snapshot of version n.
AddFuncOn(n) == processPkg(n, "event")

AddFunc ==
    \E n \in 1..CurRV : AddFuncOn(n)

\* The filter of UpdateFunc with != for the version tokens of line 302.
UpdateFilteredOtherVersion(old, new) ==
    old # new /\ hist[new].status # BuildStatusPending

\* The filter of UpdateFunc without the status test of line 303.
UpdateFilteredSameVersion(old, new) == old = new

\* UpdateFunc, lines 302-305: the notification is dropped.
UpdateFiltered(old, new) ==
    old = new /\ hist[new].status # BuildStatusPending

\* UpdateFunc, lines 293-307, on the snapshots of versions old and new; a
\* resync hands the same object as both.
UpdateFuncOn(old, new) ==
    IF UpdateFiltered(old, new)
    THEN UNCHANGED vars
    ELSE processPkg(new, IF old = new THEN "resync" ELSE "event")

UpdateFunc ==
    \E old \in 1..CurRV, new \in 1..CurRV :
        /\ old <= new
        /\ UpdateFuncOn(old, new)

\* ------------------------------------------------------------------ build
\* The run's status write of st with the version it holds; nextOk / nextErr
\* are where the run continues after err == nil / err != nil.
StatusWrite(r, given, st, lg, upload, nextOk, nextErr) ==
    \E ok \in BOOLEAN :
        IF UpdateAccepted(given, ok)
        THEN /\ hist' = Append(hist, UpdatedPackage(given, st, lg, upload))
             /\ run' = [run EXCEPT ![r].pc = nextOk,
                                   ![r].wr = Append(@, <<st, lg, TRUE>>),
                                   ![r].pkg = IF st = BuildStatusRunning THEN CurRV + 1 ELSE @]
        ELSE /\ hist' = hist
             /\ run' = [run EXCEPT ![r].pc = nextErr,
                                   ![r].wr = Append(@, <<st, lg, FALSE>>)]

\* build without the return of line 105.
MarkRunningIgnoreError(r) ==
    /\ run[r].pc = "start"
    /\ StatusWrite(r, run[r].src, BuildStatusRunning, "", FALSE, "getEnv", "getEnv")
    /\ UNCHANGED <<fns, buildCache>>

\* build, lines 100-106: mark the package running, return when that fails.
MarkRunning(r) ==
    /\ run[r].pc = "start"
    /\ StatusWrite(r, run[r].src, BuildStatusRunning, "", FALSE, "getEnv", "release")
    /\ UNCHANGED <<fns, buildCache>>

\* build, lines 92-98: the deferred removal of the key.
Release(r) ==
    /\ run[r].pc = "release"
    /\ buildCache' = buildCache \ {RunKey(r)}
    /\ run' = [run EXCEPT ![r].pc = "done"]
    /\ UNCHANGED <<hist, fns>>

\* build, lines 108-123: fetch the environment, which is there, is not
\* found, or cannot be fetched.  IsNotFound ends the run with a Failed write;
\* any other error leaves err set and the run goes on.
GetEnvironment(r) ==
    /\ run[r].pc = "getEnv"
    /\ \/ run' = [run EXCEPT ![r].pc = "poll"]
       \/ run' = [run EXCEPT ![r].pc = "envMissing"]
       \/ run' = [run EXCEPT ![r].pc = "poll", ![r].enverr = TRUE]
    /\ UNCHANGED <<hist, fns, buildCache>>

\* The IsNotFound branch without the return of line 122.
EnvMissingNoReturn(r) ==
    /\ run[r].pc = "envMissing"
    /\ StatusWrite(r, run[r].pkg, BuildStatusFailed, LogEnvMissing, FALSE, "poll", "poll")
    /\ UNCHANGED <<fns, buildCache>>

\* build, lines 110-122.
EnvMissing(r) ==
    /\ run[r].pc = "envMissing"
    /\ StatusWrite(r, run[r].pkg, BuildStatusFailed, LogEnvMissing, FALSE, "release", "release")
    /\ UNCHANGED <<fns, buildCache>>

\* healthCheckBackOff.NextExists(): attempts are left.
NextExists(tries) == tries < MaxRetries
\* healthCheckBackOff.GetNext(): an attempt is used up.
GetNext(tries) == tries + 1

\* The first pod of the listing, from position i on, with the labels of the
\* environment (lines 148-156); 0 when there is none.
RECURSIVE FirstMatch(_, _)
FirstMatch(items, i) ==
    IF i > Len(items) THEN 0
    ELSE IF PodMatches(items[i]) THEN i
    ELSE FirstMatch(items, i + 1)

\* build, lines 133-172 and 252: one pass of the health-check loop over the
\* listing items.
PollItems(r, items) ==
    LET m == FirstMatch(items, 1) IN
    IF ~NextExists(run[r].tries)
    THEN run' = [run EXCEPT ![r].pc = "timeout"]
    ELSE IF run[r].enverr
    THEN run' = [run EXCEPT ![r].pc = "release"]
    ELSE IF Len(items) = 0
    THEN \* Sleep(GetCurrentBackoffDuration()) and continue
         run' = [run EXCEPT ![r].pc = "sleep", ![r].items = items]
    ELSE IF m = 0
    THEN \* no pod of this environment: Sleep(GetNext())
         run' = [run EXCEPT ![r].pc = "sleep", ![r].items = items,
                         ![r].tries = GetNext(@)]
    ELSE IF ~PodIsReady(items[m])
    THEN \* sleep, break, Sleep(GetNext())
         run' = [run EXCEPT ![r].pc = "sleep", ![r].items = items,
                         ![r].tries = GetNext(@)]
    ELSE \* buildPackage is called
         run' = [run EXCEPT ![r].pc = "building", ![r].items = items, ![r].built = @ + 1]

Poll(r) ==
    /\ run[r].pc = "poll"
    /\ \E items \in PodLists : PollItems(r, items)
    /\ UNCHANGED <<hist, fns, buildCache>>

\* time.Sleep returns, the loop tests NextExists again.
Wake(r) ==
    /\ run[r].pc = "sleep"
    /\ run' = [run EXCEPT ![r].pc = "poll", ![r].items = <<>>]
    /\ UNCHANGED <<hist, fns, buildCache>>

\* build, lines 255-264: the attempt budget is used up.
Timeout(r) ==
    /\ run[r].pc = "timeout"
    /\ StatusWrite(r, run[r].pkg, BuildStatusFailed, LogTimeout, FALSE, "release", "release")
    /\ UNCHANGED <<fns, buildCache>>

\* build, lines 172-173: buildPackage returns.
BuildReturns(r) ==
    /\ run[r].pc = "building"
    /\ \/ run' = [run EXCEPT ![r].pc = "listFns", ![r].items = <<>>, ![r].log = LogBuild,
                             ![r].bret = "ok"]
       \/ run' = [run EXCEPT ![r].pc = "buildFailed", ![r].items = <<>>, ![r].log = LogBuild,
                             ![r].bret = "err"]
    /\ UNCHANGED <<hist, fns, buildCache>>

\* build, lines 174-184.
BuildFailed(r) ==
    /\ run[r].pc = "buildFailed"
    /\ StatusWrite(r, run[r].pkg, BuildStatusFailed, run[r].log, FALSE, "release", "release")
    /\ UNCHANGED <<fns, buildCache>>

\* The test of lines 209-211 without the namespace of line 210.
StaleAnyNamespace(item, pkgrv) ==
    /\ item.ref.name = PkgName
    /\ item.ref.rv # pkgrv

\* The test of lines 209-211 with == for the resource versions.
StaleSameVersion(item, pkgrv) ==
    /\ item.ref.name = PkgName
    /\ item.ref.ns = PkgNs
    /\ item.ref.rv = pkgrv

\* lines 209-211: the listed function references this package at another version.
Stale(item, pkgrv) ==
    /\ item.ref.name = PkgName
    /\ item.ref.ns = PkgNs
    /\ item.ref.rv # pkgrv

\* The next listed function, from position i on, the loop of lines 208-231
\* updates; Len(list) + 1 when there is none.
RECURSIVE NextStale(_, _, _)
NextStale(list, i, pkgrv) ==
    IF i > Len(list) THEN i
    ELSE IF Stale(list[i], pkgrv) THEN i
    ELSE NextStale(list, i + 1, pkgrv)

\* Functions(pkg.Namespace).List: the functions as the store holds them.
Listing == [f \in Fns |-> [fn |-> f, ref |-> fns[f].ref, ver |-> fns[f].ver]]

\* build, lines 189-194: list the functions of the package's namespace.
ListFunctions(r) ==
    /\ run[r].pc = "listFns"
    /\ \/ run' = [run EXCEPT ![r].pc = "fnLoop", ![r].list = Listing,
                             ![r].idx = NextStale(Listing, 1, run[r].pkg)]
       \/ run' = [run EXCEPT ![r].pc = "listFailed", ![r].log = LogListErr]
    /\ UNCHANGED <<hist, fns, buildCache>>

\* build, lines 195-204: the Failed write after a failed listing.  The branch
\* has no return: the run goes on to the loop of line 208 with the empty list
\* the failed call returned.
ListFailed(r) ==
    /\ run[r].pc = "listFailed"
    /\ StatusWrite(r, run[r].pkg, BuildStatusFailed, run[r].log, FALSE, "fnLoop", "fnLoop")
    /\ UNCHANGED <<fns, buildCache>>

\* build, lines 208-231: update the next stale function, or leave the loop.
\* Functions(ns).Update is conditional on the function's own version.
UpdateFunction(r) ==
    /\ run[r].pc = "fnLoop"
    /\ LET i == run[r].idx IN
       IF i > Len(run[r].list)
       THEN /\ run' = [run EXCEPT ![r].pc = "markSucceeded"]
            /\ fns' = fns
       ELSE LET item == run[r].list[i] IN
            \E ok \in BOOLEAN :
                IF ok /\ fns[item.fn].ver = item.ver
                THEN /\ fns' = [fns EXCEPT ![item.fn] =
                                [ref |-> [item.ref EXCEPT !.rv = run[r].pkg],
                                 ver |-> @.ver + 1]]
                     /\ run' = [run EXCEPT ![r].idx = NextStale(run[r].list, i + 1, run[r].pkg),
                                           ![r].upd = @ \cup {item.fn}]
                ELSE /\ fns' = fns
                     /\ run' = [run EXCEPT ![r].pc = "fnFailed", ![r].ffn = item.fn,
                                           ![r].log = LogFnErr]
    /\ UNCHANGED <<hist, buildCache>>

\* The branch of lines 216-228 without its return.
FunctionFailedNoReturn(r) ==
    /\ run[r].pc = "fnFailed"
    /\ StatusWrite(r, run[r].pkg, BuildStatusFailed, run[r].log, FALSE, "fnLoop", "fnLoop")
    /\ UNCHANGED <<fns, buildCache>>

\* build, lines 216-228.
FunctionFailed(r) ==
    /\ run[r].pc = "fnFailed"
    /\ StatusWrite(r, run[r].pkg, BuildStatusFailed, run[r].log, FALSE, "release", "release")
    /\ UNCHANGED <<fns, buildCache>>

\* build, lines 233-235 and 249-250.
MarkSucceeded(r) ==
    /\ run[r].pc = "markSucceeded"
    /\ StatusWrite(r, run[r].pkg, BuildStatusSucceeded, run[r].log, TRUE, "release", "succeedFailed")
    /\ UNCHANGED <<fns, buildCache>>

\* build, lines 236-246.
SucceedFailed(r) ==
    /\ run[r].pc = "succeedFailed"
    /\ StatusWrite(r, run[r].pkg, BuildStatusFailed, run[r].log, FALSE, "release", "release")
    /\ UNCHANGED <<fns, buildCache>>

\* One step of the build goroutine r.
build(r) ==
    \/ MarkRunning(r)
    \/ GetEnvironment(r)
    \/ EnvMissing(r)
    \/ Poll(r)
    \/ Wake(r)
    \/ Timeout(r)
    \/ BuildReturns(r)
    \/ BuildFailed(r)
    \/ ListFunctions(r)
    \/ ListFailed(r)
    \/ UpdateFunction(r)
    \/ FunctionFailed(r)
    \/ MarkSucceeded(r)
    \/ SucceedFailed(r)
    \/ Release(r)

Next ==
    \/ ExternalApply
    \/ AddFunc
    \/ UpdateFunc
    \/ \E r \in Runs : build(r)

Spec == Init /\ [][Next]_vars

\* Every spawned goroutine keeps being scheduled.
FairSpec == Spec /\ \A r \in Runs : WF_vars(build(r))

\* ================================================================ claims
Done(r) == run[r].pc = "done"
\* The status writes run r attempted / had accepted.
Attempted(r, st) == \E i \in 1..Len(run[r].wr) : run[r].wr[i][1] = st
Accepted(r, st) == \E i \in 1..Len(run[r].wr) : run[r].wr[i][1] = st /\ run[r].wr[i][3]
\* Remote build invocations for the snapshot of version n.
RECURSIVE SumBuilt(_, _)
SumBuilt(r, n) ==
    IF r = 0 THEN 0
    ELSE (IF run[r].src = n THEN run[r].built ELSE 0) + SumBuilt(r - 1, n)
BuildsOf(n) == SumBuilt(MaxRuns, n)

\* C1: at most one build goroutine is in flight per dedup key, and the key
\* of a goroutine in flight is in the build cache until the goroutine ends.
C1_OneRunPerKey ==
    /\ \A r \in Runs : InFlight(r) => RunKey(r) \in buildCache
    /\ \A r1 \in Runs, r2 \in Runs :
           (InFlight(r1) /\ InFlight(r2) /\ run[r1].src = run[r2].src) => r1 = r2

\* A second notification of the same version was admitted once the first
\* goroutine had ended.
C1_Witness ==
    \E r1 \in Runs, r2 \in Runs :
        /\ r1 # r2 /\ run[r1].src = run[r2].src
        /\ Done(r1) /\ InFlight(r2)

C4_InitialStatus ==
    \A n \in 2..CurRV :
        hist[n].by = "resolver" =>
            /\ hist[n-1].status = Unset
            /\ ~hist[n-1].depEmpty =>
                   (hist[n].status = BuildStatusNone /\ hist[n].log = "")
            /\ (hist[n-1].depEmpty /\ ~hist[n-1].srcEmpty) =>
                   (hist[n].status = BuildStatusPending /\ hist[n].log = "")
            /\ (hist[n-1].depEmpty /\ hist[n-1].srcEmpty) =>
                   (hist[n].status = BuildStatusFailed /\ hist[n].log = LogBothEmpty)

\* The resolver has classified a package with both archives present.
C4_Witness ==
    \E n \in 2..CurRV :
        /\ hist[n].by = "resolver"
        /\ ~hist[n-1].depEmpty /\ ~hist[n-1].srcEmpty
        /\ hist[n].status = BuildStatusNone

\* C5: every accepted write of the controller follows the lifecycle
\* unset -> {None, Pending, Failed} (resolver) and
\* Pending -> Running -> {Succeeded, Failed} (build); a Succeeded version is
\* only ever followed by a version the user applied.
C5_Lifecycle ==
    \A n \in 2..CurRV :
        /\ hist[n].by = "resolver" =>
               /\ hist[n-1].status = Unset
               /\ hist[n].status \in {BuildStatusNone, BuildStatusPending, BuildStatusFailed}
        /\ hist[n].by = "build" =>
               \/ hist[n-1].status = BuildStatusPending /\ hist[n].status = BuildStatusRunning
               \/ /\ hist[n-1].status = BuildStatusRunning
                  /\ hist[n].status \in {BuildStatusSucceeded, BuildStatusFailed}
        /\ hist[n-1].status = BuildStatusSucceeded => hist[n].by = "user"

\* The package went Running then Succeeded, and a goroutine started from a
\* re-delivered Pending snapshot then had its Running write rejected.
C5_Witness ==
    /\ Cur.status = BuildStatusSucceeded
    /\ hist[CurRV - 1].status = BuildStatusRunning
    /\ \E r \in Runs :
           /\ Done(r) /\ run[r].admTerminal
           /\ run[r].wr = <<(<<BuildStatusRunning, "", FALSE>>)>>

\* C6: a goroutine admitted while the stored status is terminal, whatever
\* snapshot its notification carried, never has a write accepted and never
\* invokes the remote build.
C6_TerminalNeverBuilds ==
    \A r \in Runs :
        run[r].admTerminal =>
            /\ run[r].built = 0
            /\ \A i \in 1..Len(run[r].wr) : ~run[r].wr[i][3]

\* A stale Pending snapshot was delivered and admitted while the stored
\* package was Failed, and its goroutine has ended.
C6_Witness ==
    \E r \in Runs :
        /\ run[r].admTerminal /\ Done(r)
        /\ hist[run[r].src].status = BuildStatusPending
        /\ Cur.status = BuildStatusFailed


\* C3: a goroutine that has ended has removed its key (the key is in the
\* cache only for another goroutine of the same version), and no key stays
\* in the build cache forever.
C3_EveryRunReleases ==
    /\ [](\A r \in Runs :
            (Done(r) /\ RunKey(r) \in buildCache) =>
                \E q \in Runs : InFlight(q) /\ run[q].src = run[r].src)
    /\ \A n \in 1..MaxRV :
          (buildCacheKey(PkgNs, PkgName, n) \in buildCache)
              ~> (buildCacheKey(PkgNs, PkgName, n) \notin buildCache)

\* The listing the goroutine obtained holds a pod of its environment.
SawMatch(r) == run[r].pc \in {"sleep", "building"} /\ FirstMatch(run[r].items, 1) # 0
\* The goroutine's last status write is the timeout Failed write.
TimedOut(r) ==
    /\ Len(run[r].wr) >= 2
    /\ run[r].wr[Len(run[r].wr)][1] = BuildStatusFailed
    /\ run[r].wr[Len(run[r].wr)][2] = LogTimeout

\* C7: a goroutine polling for a builder, with the environment resolved,
\* either obtains a listing with a pod of its environment or ends having
\* written Failed with the timeout log and without a remote build.
C7_NoBuilderTimesOut ==
    \A r \in Runs :
        (run[r].pc = "poll" /\ ~run[r].enverr)
            ~> (SawMatch(r) \/ (Done(r) /\ TimedOut(r) /\ run[r].built = 0))

\* The goroutine listed the functions and left the loop of lines 208-231
\* without an error.
ReconcileDone(r) ==
    /\ Len(run[r].list) > 0
    /\ run[r].ffn = 0
    /\ \/ run[r].pc \in {"markSucceeded", "succeedFailed"}
       \/ run[r].pc \in {"release", "done"} /\ Attempted(r, BuildStatusSucceeded)
\* Since the listing of r, function f was written by r alone, if at all.
OnlyWrittenBy(r, item) ==
    fns[item.fn].ver = item.ver + (IF item.fn \in run[r].upd THEN 1 ELSE 0)

\* C8: when the reconciliation of a goroutine holding the package at
\* version V2 has completed without error, every listed function that
\* references the package carries V2; the functions are those this build
\* alone has written since it listed them (a build of another version of
\* the package writes its own version).
C8_CascadeConverges ==
    \A r \in Runs :
        ReconcileDone(r) =>
            \A i \in 1..Len(run[r].list) :
                LET item == run[r].list[i] IN
                (/\ item.ref.name = PkgName /\ item.ref.ns = PkgNs
                 /\ OnlyWrittenBy(r, item))
                => fns[item.fn].ref.rv = run[r].pkg

\* Two functions referenced the package at the stale version 0 and both
\* now carry the version of the goroutine.
C8_Witness ==
    \E r \in Runs :
        /\ ReconcileDone(r) /\ Done(r)
        /\ Cardinality(run[r].upd) >= 2
        /\ \A f \in run[r].upd : fns[f].ref.rv = run[r].pkg

\* C9: once the update of a function has failed, the goroutine attempts no
\* Succeeded write, makes the Failed write with the update error as its only
\* further write and ends; the failing step and every later step of the
\* goroutine leave all functions as they are (no rollback of the functions
\* already updated, no further update).
C9_PartialFailure ==
    /\ [](\A r \in Runs :
            run[r].ffn # 0 =>
                /\ run[r].pc \in {"fnFailed", "release", "done"}
                /\ ~Attempted(r, BuildStatusSucceeded)
                /\ run[r].pc # "fnFailed" =>
                       /\ Len(run[r].wr) = 2
                       /\ run[r].wr[2][1] = BuildStatusFailed
                       /\ run[r].wr[2][2] = LogFnErr
                       /\ run[r].wr[2][3] =>
                              /\ hist[run[r].pkg + 1].status = BuildStatusFailed
                              /\ hist[run[r].pkg + 1].log = LogFnErr)
    /\ [][\A r \in Runs :
            ((run[r].ffn # 0 \/ run'[r].ffn # 0) /\ run'[r] # run[r]) => fns' = fns]_vars

\* The first of two stale functions was updated, the update of the second
\* failed, and the package was written Failed.
C9_Witness ==
    \E r \in Runs :
        /\ Done(r) /\ run[r].upd = {1} /\ run[r].ffn = 2
        /\ fns[1].ref.rv = run[r].pkg /\ fns[2].ref.rv = 0
        /\ Cur.status = BuildStatusFailed /\ Cur.log = LogFnErr

\* C10: an Updated notification whose new object is Pending is not dropped,
\* with equal or different version tokens, and its handling leaves the key
\* of the new object in the build cache: when the key is absent the handler
\* stores it (and nothing else can happen).
C10_PendingUpdateAdmits ==
    \A old \in 1..CurRV, new \in 1..CurRV :
        (old <= new /\ hist[new].status = BuildStatusPending) =>
            /\ ~UpdateFiltered(old, new)
            /\ (/\ buildCacheKey(PkgNs, PkgName, new) \notin buildCache
                /\ \E r \in Runs : run[r].pc = "idle")
               => /\ ENABLED (/\ UpdateFuncOn(old, new)
                              /\ buildCacheKey(PkgNs, PkgName, new) \in buildCache')
                  /\ ~ENABLED (/\ UpdateFuncOn(old, new)
                               /\ buildCacheKey(PkgNs, PkgName, new) \notin buildCache')

\* A goroutine was admitted by an Updated notification with equal version
\* tokens.
C10_Witness ==
    \E r \in Runs :
        /\ run[r].via = "resync" /\ InFlight(r)
        /\ hist[run[r].src].status = BuildStatusPending
        /\ RunKey(r) \in buildCache
\* C11: an Updated notification with equal version tokens whose object is
\* not Pending (unset, None, Running, Succeeded or Failed) changes nothing:
\* no store write, no key stored or removed, no goroutine spawned, package,
\* functions and build cache as they were.
C11_UnchangedUpdateIsNoOp ==
    \A n \in 1..CurRV :
        hist[n].status # BuildStatusPending =>
            /\ ENABLED UpdateFuncOn(n, n)
            /\ ~ENABLED (UpdateFuncOn(n, n) /\ vars' # vars)

\* The stored package is Succeeded with its functions updated and no key in
\* the cache, so a resync delivers it with equal version tokens; an older
\* version without status can be re-delivered too.
C11_Witness ==
    /\ Cur.status = BuildStatusSucceeded
    /\ \E n \in 1..CurRV : hist[n].status = Unset
    /\ buildCache = {}
    /\ \E f \in Fns : fns[f].ref.rv # 0
    /\ ENABLED UpdateFuncOn(CurRV, CurRV)
\* What the resolver persists for the snapshot of version n.
Resolved(n) ==
    LET st == InitialStatus(hist[n].depEmpty, hist[n].srcEmpty) IN
    Version(st.status, st.log, hist[n].depEmpty, hist[n].srcEmpty, "resolver")
\* The handler step changes something besides appending the resolver's version.
BeyondResolver(n) ==
    \/ buildCache' # buildCache \/ run' # run \/ fns' # fns
    \/ hist' # hist /\ hist' # Append(hist, Resolved(n))

\* C12 as stated: every Added notification, and every Updated notification
\* whose object has no status (equal version tokens included), has the
\* resolver's write as its single effect and stores no key.
C12_AddedAlwaysResolves ==
    \A n \in 1..CurRV :
        /\ ~ENABLED (AddFuncOn(n) /\ BeyondResolver(n))
        /\ (n = CurRV /\ CurRV < MaxRV) =>
               /\ ENABLED (AddFuncOn(n) /\ hist' = Append(hist, Resolved(n)))
               /\ \A old \in 1..n :
                      hist[n].status = Unset =>
                          ENABLED (UpdateFuncOn(old, n) /\ hist' = Append(hist, Resolved(n)))

\* C12, amended: an Added notification, or an Updated notification with
\* different version tokens, whose object has no status has the resolver's
\* conditional write as its single effect (the write is made when the object
\* is the stored version): its handling stores no key and spawns no
\* goroutine, also when the resolved status is Pending.  Every goroutine was
\* spawned by a notification whose object was Pending, and the step that
\* spawns it writes nothing.
C12_ResolverNeverBuilds ==
    /\ [](\A n \in 1..CurRV :
            hist[n].status = Unset =>
                /\ ~ENABLED (AddFuncOn(n) /\ BeyondResolver(n))
                /\ \A old \in 1..(n-1) : ~ENABLED (UpdateFuncOn(old, n) /\ BeyondResolver(n))
                /\ (n = CurRV /\ CurRV < MaxRV) =>
                       /\ ENABLED (AddFuncOn(n) /\ hist' = Append(hist, Resolved(n)))
                       /\ \A old \in 1..(n-1) :
                              ENABLED (UpdateFuncOn(old, n) /\ hist' = Append(hist, Resolved(n))))
    /\ [](\A r \in Runs :
            run[r].pc # "idle" => hist[run[r].src].status = BuildStatusPending)
    /\ [][\A r \in Runs :
            (run[r].pc = "idle" /\ run'[r].pc # "idle") => hist' = hist]_vars

\* The resolver wrote Pending for a package applied without status, and a
\* goroutine was then spawned by a notification carrying the version the
\* resolver wrote.
C12_Witness ==
    \E r \in Runs :
        /\ run[r].pc # "idle" /\ run[r].src >= 2
        /\ hist[run[r].src].by = "resolver"
        /\ hist[run[r].src].status = BuildStatusPending
        /\ hist[run[r].src - 1].status = Unset
\* The Running write of the goroutine was rejected.
RunningRejected(r) == Len(run[r].wr) >= 1 /\ ~run[r].wr[1][3]

\* C13: a goroutine whose Running write was rejected returns at once: the
\* rejected write is its only status write, it has not gone on to the
\* environment, the poll loop, the remote build or the functions, and its
\* only further step, the release of its key, leaves the stored package and
\* the functions as they are.
C13_RejectedRunningAborts ==
    /\ [](\A r \in Runs :
            RunningRejected(r) =>
                /\ run[r].pc \in {"release", "done"}
                /\ run[r].wr = <<(<<BuildStatusRunning, "", FALSE>>)>>
                /\ run[r].built = 0 /\ run[r].tries = 0 /\ ~run[r].enverr
                /\ run[r].list = <<>> /\ run[r].upd = {} /\ run[r].ffn = 0)
    /\ [][\A r \in Runs :
            ((RunningRejected(r) \/ RunningRejected(r)') /\ run'[r] # run[r])
                => (hist' = hist /\ fns' = fns)]_vars

\* The Running write of a goroutine carried a stale version token (the
\* package had been written since the snapshot), and the goroutine has ended
\* with the package as the other writer left it.
C13_Witness ==
    \E r \in Runs :
        /\ Done(r) /\ RunningRejected(r)
        /\ run[r].src < CurRV
        /\ hist[run[r].src + 1].by = "build"
        /\ RunKey(r) \notin buildCache
\* The goroutine made the Failed write of the missing environment.
WroteEnvMissing(r) ==
    \E i \in 1..Len(run[r].wr) : run[r].wr[i][2] = LogEnvMissing

\* C14: a goroutine that finds its environment missing has only written
\* Running, has polled nothing and built nothing; its next step is the one
\* Failed write whose log names the environment, after which it only
\* releases its key: two writes in all, no poll attempt, no remote build, no
\* function listed or updated, and the package Failed when the store took
\* the write.
C14_EnvMissingFails ==
    /\ [](\A r \in Runs :
            /\ run[r].pc = "envMissing" =>
                   /\ run[r].wr = <<(<<BuildStatusRunning, "", TRUE>>)>>
                   /\ run[r].tries = 0 /\ run[r].built = 0
            /\ WroteEnvMissing(r) =>
                   /\ run[r].pc \in {"release", "done"}
                   /\ Len(run[r].wr) = 2
                   /\ run[r].wr[2][1] = BuildStatusFailed
                   /\ run[r].wr[2][2] = "environment does not exist: \"env\""
                   /\ run[r].tries = 0 /\ run[r].built = 0
                   /\ run[r].list = <<>> /\ run[r].upd = {} /\ run[r].ffn = 0
                   /\ run[r].wr[2][3] =>
                          /\ hist[run[r].pkg + 1].status = BuildStatusFailed
                          /\ hist[run[r].pkg + 1].log = LogEnvMissing)
    /\ [][\A r \in Runs :
            /\ (run[r].pc = "envMissing" /\ run'[r] # run[r]) =>
                   (WroteEnvMissing(r)' /\ run'[r].pc = "release" /\ fns' = fns)
            /\ (WroteEnvMissing(r) /\ run'[r] # run[r]) =>
                   (run'[r].pc = "done" /\ hist' = hist /\ fns' = fns)]_vars

\* A goroutine found the environment missing, the store took its Failed
\* write, and the goroutine has ended.
C14_Witness ==
    \E r \in Runs :
        /\ Done(r) /\ WroteEnvMissing(r) /\ run[r].wr[2][3]
        /\ Cur.status = BuildStatusFailed /\ Cur.log = LogEnvMissing
        /\ RunKey(r) \notin buildCache
\* C15: a goroutine whose Running write was accepted ends, and when it has
\* ended it has attempted a Succeeded or a Failed write.
C15_RunningRunsEndTerminal ==
    /\ [](\A r \in Runs :
            (Done(r) /\ Accepted(r, BuildStatusRunning)) =>
                (Attempted(r, BuildStatusSucceeded) \/ Attempted(r, BuildStatusFailed)))
    /\ \A r \in Runs : Accepted(r, BuildStatusRunning) ~> Done(r)
\* The goroutine made the Failed write of the failed function listing.
WroteListErr(r) ==
    \E i \in 1..Len(run[r].wr) : run[r].wr[i][2] = LogListErr

\* C16: a goroutine that made the Failed write of a failed function listing
\* makes no other write after it (Running and that Failed write are its two
\* writes, no Succeeded write, no second Failed write) and updates no
\* function.
C16_ListFailureAborts ==
    \A r \in Runs :
        WroteListErr(r) =>
            /\ Len(run[r].wr) = 2
            /\ run[r].wr[2][1] = BuildStatusFailed
            /\ ~Attempted(r, BuildStatusSucceeded)
            /\ run[r].upd = {}
\* C17: when a goroutine has ended and the stored package is the Succeeded
\* version it wrote, every function whose reference names the package holds
\* the version token of the stored package.  The goroutines are those whose
\* function listing succeeded (a failed listing is the case of C16).
C17_SucceededLeavesNoStale ==
    \A r \in Runs :
        (/\ Done(r) /\ Accepted(r, BuildStatusSucceeded) /\ ReconcileDone(r)
         /\ CurRV = run[r].pkg + 1 /\ Cur.status = BuildStatusSucceeded)
        => \A f \in Fns :
               (fns[f].ref.name = PkgName /\ fns[f].ref.ns = PkgNs)
                   => fns[f].ref.rv = CurRV
\* The listing holds a pod with the labels of the environment and every
\* container ready.
HasReadyMatch(items) ==
    \E i \in 1..Len(items) : PodMatches(items[i]) /\ PodIsReady(items[i])

\* C18: a poll attempt whose listing holds a ready pod of the environment
\* invokes the remote build: an attempt that ends in the sleep before the
\* next attempt had no such pod in its listing, at any position.
C18_ReadyPodIsSelected ==
    \A r \in Runs :
        run[r].pc = "sleep" => ~HasReadyMatch(run[r].items)
\* The listing holds a pod labelled with exactly the name, the namespace and
\* the version of the environment, every container of it ready.
SawReadyBuilder(items) ==
    \E i \in 1..Len(items) :
        /\ items[i].envName = EnvName
        /\ items[i].envNs = EnvNs
        /\ items[i].envRV = EnvRV
        /\ \A c \in 1..Len(items[i].containers) : items[i].containers[c]

C20_OnlyStaleReferencesWritten ==
    [][\A f \in Fns :
          fns'[f] # fns[f] =>
              \E r \in Runs :
                  /\ run[r].pc = "fnLoop" /\ run'[r] # run[r]
                  /\ fns[f].ref.name = PkgName
                  /\ fns[f].ref.ns = PkgNs
                  /\ fns[f].ref.rv # run[r].pkg
                  /\ fns'[f].ref = [fns[f].ref EXCEPT !.rv = run[r].pkg]
                  /\ \A g \in Fns \ {f} : fns'[g] = fns[g]]_vars

\* A goroutine has updated function 1 and left loop and run, while function
\* 2, which already referenced the package at the version the goroutine
\* holds, was never written.
C20_Witness ==
    \E r \in Runs :
        /\ Done(r) /\ run[r].upd = {1} /\ run[r].ffn = 0
        /\ Len(run[r].list) = NumFns
        /\ fns[1].ref = FnRef(PkgNs, PkgName, run[r].pkg)
        /\ fns[2].ver = 1
        /\ fns[2].ref = FnRef(PkgNs, PkgName, run[r].pkg)
\* ------------------------------------------- admission of several packages
\* The admission path alone (buildCacheKey, buildWithCache and the deferred
\* Delete of build), for packages of several namespaces and names: here
\* run[r] holds the ObjectMeta of the package goroutine r was spawned for,
\* and the store and the functions play no part.
KeyNamespaces == {"a", "a-b"}
KeyNames == {"c", "b-c"}
ObjectMetas ==
    [Namespace : KeyNamespaces, Name : KeyNames, ResourceVersion : 1..MaxRV]

\* buildCacheKey(obj), lines 67-69.
KeyOf(obj) == buildCacheKey(obj.Namespace, obj.Name, obj.ResourceVersion)

KeyIdle == [pc |-> "idle"]
KeyInit ==
    /\ hist = <<>>
    /\ fns = <<>>
    /\ buildCache = {}
    /\ run = [r \in Runs |-> KeyIdle]

\* buildWithCache, lines 71-79, for the package with this ObjectMeta.
AdmitPackage ==
    \E obj \in ObjectMetas :
        IF SetFails(KeyOf(obj))
        THEN UNCHANGED vars
        ELSE /\ \E r \in Runs : run[r].pc = "idle"
             /\ buildCache' = buildCache \cup {KeyOf(obj)}
             /\ run' = [run EXCEPT ![FreeRun] = [pc |-> "start", meta |-> obj]]
             /\ UNCHANGED <<hist, fns>>

\* build returns: the deferred Delete of lines 92-98.
EndBuild ==
    \E r \in Runs :
        /\ run[r].pc = "start"
        /\ buildCache' = buildCache \ {KeyOf(run[r].meta)}
        /\ run' = [run EXCEPT ![r] = [pc |-> "done", meta |-> run[r].meta]]
        /\ UNCHANGED <<hist, fns>>

KeyNext == AdmitPackage \/ EndBuild

KeySpec == KeyInit /\ [][KeyNext]_vars

\* C21: the key of a package is in the build cache, so that its admission
\* is skipped, only while a goroutine spawned for that very package
\* (namespace, name and version) is in flight: no other package has the
\* same key.
C21_KeyInjective ==
    \A obj \in ObjectMetas :
        SetFails(KeyOf(obj)) =>
            \E r \in Runs : run[r].pc = "start" /\ run[r].meta = obj
====
